---------------------------- MODULE Spec2Model ----------------------------
(***************************************************************************)
(* A model of Passenger's CachedFileStat (ext/common/Utils/                *)
(* CachedFileStat.hpp): a mutex-protected LRU cache of stat() results,     *)
(* keyed by filename, with a per-call throttle rate.                       *)
(*                                                                         *)
(* State: the object's fields maxSize, entries (the std::list of Entry     *)
(* nodes, most recently used first) and cache (the StringMap from filename *)
(* to list iterator), the mutex, and each thread's position in a call.     *)
(* The clock (SystemTime::get) and the file system (syscalls::stat) are    *)
(* the environment: every read of either is a nondeterministic choice.     *)
(***************************************************************************)
EXTENDS Integers, Sequences, FiniteSets, TLC

(***************************************************************************)
(* Bounds of the model.                                                    *)
(***************************************************************************)
NumPaths == 3       \* filenames are 1..NumPaths
MaxTime == 2        \* the clock shows a time_t in 0..MaxTime
MaxCap == 2         \* small cache sizes passed to the constructor/setMaxSize
NumThreads == 2     \* threads calling into the shared object
MaxCalls == 3       \* calls made in one behaviour

(***************************************************************************)
(* unsigned int and int are modelled UIntBits wide.                        *)
(***************************************************************************)
UIntBits == 3
UIntMod == 2 ^ UIntBits
UIntMax == UIntMod - 1

Paths == 1 .. NumPaths
Times == 0 .. MaxTime
Threads == 1 .. NumThreads
\* Values of an unsigned int argument: the small ones and the largest.
Capacities == (0 .. MaxCap) \cup {UIntMax}
ThrottleRates == {0, 2, UIntMax}
\* errno values a failed stat() can set (ENOENT).
Errnos == {2}
\* Contents of a struct stat written by a successful stat(); 0 is the
\* memset(0) block of a new Entry.
Infos == {1}

\* entries.end()
End == 0
\* A default-constructed EntryList::iterator.
NullIterator == -1
\* The StringMap holds no value for a key.
NoKey == -2
\* The mutex is free.
NoThread == 0

VARIABLES
    maxSize,    \* CachedFileStat::maxSize
    entries,    \* CachedFileStat::entries: sequence of list nodes, front first
    cache,      \* CachedFileStat::cache: filename -> iterator (node) or NoKey
    lock,       \* CachedFileStat::lock: the thread that holds it, or NoThread
    pc,         \* each thread's position: "idle", "waiting", "locked"
    now,        \* the latest time the system clock has shown
    crashed,    \* the process has died of undefined behaviour
    last,       \* history: what the most recent call did and returned
    recency,    \* history: the filenames stat() was called on, latest first
    lastStat,   \* history: when each filename was last really stat()ted
    lastRate,   \* history: the throttleRate of the call that did so
    ncalls      \* history: calls made so far

vars == <<maxSize, entries, cache, lock, pc, now, crashed, last, recency,
          lastStat, lastRate, ncalls>>

(***************************************************************************)
(* Integer conversions.                                                    *)
(***************************************************************************)
\* Conversion of an integer to unsigned int.
ToUInt(x) == x % UIntMod

\* Conversion of an unsigned value to int (two's complement).
ToInt(x) == IF ToUInt(x) >= UIntMod \div 2 THEN ToUInt(x) - UIntMod ELSE ToUInt(x)

(***************************************************************************)
(* Entry                                                                   *)
(***************************************************************************)
\* Entry::Entry, in a new list node `node`.
NewEntry(node, filename) ==
    [node |-> node, filename |-> filename,
     last_result |-> -1, last_errno |-> 0, last_time |-> 0, info |-> 0]

\* Entry::expired without the conversion to unsigned int.
expiredSigned(begin, interval, currentTime) ==
    currentTime - begin >= interval

\* Entry::expired finding every entry expired.
expiredAlways(begin, interval, currentTime) == TRUE

\* Entry::expired comparing with > where the code has >=.
expiredLate(begin, interval, currentTime) ==
    ToUInt(currentTime - begin) > interval

\* Entry::expired, with currentTime the value SystemTime::get() returned.
expired(begin, interval, currentTime) ==
    ToUInt(currentTime - begin) >= interval

\* Outcomes of SystemTime::get(): the time, or an exception.
ClockOutcomes ==
    {[kind |-> "time", time |-> now],
     [kind |-> "TimeRetrievalException", time |-> 0],
     [kind |-> "thread_interrupted", time |-> 0]}

\* Outcomes of SystemTime::get() after the clock was set back: an earlier
\* time than one it has shown before.
SetBackOutcomes == [kind : {"time"}, time : {time \in Times : time < now}]

\* Outcomes of syscalls::stat(): success (the struct written; errno, which
\* no caller reads then, taken to be 0), failure (errno set, the struct
\* untouched), or interruption.
StatOutcomes ==
    [kind : {"return"}, r : {0}, errno : {0}, info : Infos]
        \cup [kind : {"return"}, r : {-1}, errno : Errnos, info : {0}]
        \cup [kind : {"thread_interrupted"}, r : {0}, errno : {0}, info : {0}]

\* stat() is not called.
NoStat == [kind |-> "none", r |-> 0, errno |-> 0, info |-> 0]

\* Entry::refresh recording the time of a stat() call only when it succeeds.
refreshRetriesFailure(e, throttleRate, clk, sys) ==
    IF clk.kind # "time"
    THEN [entry |-> e, kind |-> clk.kind, ret |-> 0, errno |-> 0,
          stats |-> 0, time |-> 0]
    ELSE IF expired(e.last_time, throttleRate, clk.time)
    THEN IF sys.kind = "thread_interrupted"
         THEN [entry |-> e, kind |-> "thread_interrupted", ret |-> 0,
               errno |-> 0, stats |-> 1, time |-> clk.time]
         ELSE [entry |-> [e EXCEPT !.last_result = sys.r,
                                   !.last_errno = sys.errno,
                                   !.last_time = IF sys.r = 0 THEN clk.time ELSE @,
                                   !.info = IF sys.r = 0 THEN sys.info ELSE @],
               kind |-> "return", ret |-> sys.r, errno |-> sys.errno,
               stats |-> 1, time |-> clk.time]
    ELSE [entry |-> e, kind |-> "return", ret |-> e.last_result,
          errno |-> e.last_errno, stats |-> 0, time |-> clk.time]

\* Entry::refresh recording the time before a stat() call that is interrupted.
refreshMarksInterrupted(e, throttleRate, clk, sys) ==
    IF clk.kind # "time"
    THEN [entry |-> e, kind |-> clk.kind, ret |-> 0, errno |-> 0,
          stats |-> 0, time |-> 0]
    ELSE IF expired(e.last_time, throttleRate, clk.time)
    THEN IF sys.kind = "thread_interrupted"
         THEN [entry |-> [e EXCEPT !.last_time = clk.time],
               kind |-> "thread_interrupted", ret |-> 0,
               errno |-> 0, stats |-> 1, time |-> clk.time]
         ELSE [entry |-> [e EXCEPT !.last_result = sys.r,
                                   !.last_errno = sys.errno,
                                   !.last_time = clk.time,
                                   !.info = IF sys.r = 0 THEN sys.info ELSE @],
               kind |-> "return", ret |-> sys.r, errno |-> sys.errno,
               stats |-> 1, time |-> clk.time]
    ELSE [entry |-> e, kind |-> "return", ret |-> e.last_result,
          errno |-> e.last_errno, stats |-> 0, time |-> clk.time]

\* Entry::refresh recording the time of every call, stat() or not.
refreshStampsEveryCall(e, throttleRate, clk, sys) ==
    IF clk.kind # "time"
    THEN [entry |-> e, kind |-> clk.kind, ret |-> 0, errno |-> 0,
          stats |-> 0, time |-> 0]
    ELSE IF expired(e.last_time, throttleRate, clk.time)
    THEN IF sys.kind = "thread_interrupted"
         THEN [entry |-> e, kind |-> "thread_interrupted", ret |-> 0,
               errno |-> 0, stats |-> 1, time |-> clk.time]
         ELSE [entry |-> [e EXCEPT !.last_result = sys.r,
                                   !.last_errno = sys.errno,
                                   !.last_time = clk.time,
                                   !.info = IF sys.r = 0 THEN sys.info ELSE @],
               kind |-> "return", ret |-> sys.r, errno |-> sys.errno,
               stats |-> 1, time |-> clk.time]
    ELSE [entry |-> [e EXCEPT !.last_time = clk.time],
          kind |-> "return", ret |-> e.last_result,
          errno |-> e.last_errno, stats |-> 0, time |-> clk.time]

\* Entry::refresh zeroing info when stat() fails.
refreshClearsInfo(e, throttleRate, clk, sys) ==
    IF clk.kind # "time"
    THEN [entry |-> e, kind |-> clk.kind, ret |-> 0, errno |-> 0,
          stats |-> 0, time |-> 0]
    ELSE IF expired(e.last_time, throttleRate, clk.time)
    THEN IF sys.kind = "thread_interrupted"
         THEN [entry |-> e, kind |-> "thread_interrupted", ret |-> 0,
               errno |-> 0, stats |-> 1, time |-> clk.time]
         ELSE [entry |-> [e EXCEPT !.last_result = sys.r,
                                   !.last_errno = sys.errno,
                                   !.last_time = clk.time,
                                   !.info = IF sys.r = 0 THEN sys.info ELSE 0],
               kind |-> "return", ret |-> sys.r, errno |-> sys.errno,
               stats |-> 1, time |-> clk.time]
    ELSE [entry |-> e, kind |-> "return", ret |-> e.last_result,
          errno |-> e.last_errno, stats |-> 0, time |-> clk.time]

\* Entry::refresh on entry e: the entry afterwards, what the call returns
\* (or throws), and how many times it called stat().
refresh(e, throttleRate, clk, sys) ==
    IF clk.kind # "time"
    THEN [entry |-> e, kind |-> clk.kind, ret |-> 0, errno |-> 0,
          stats |-> 0, time |-> 0]
    ELSE IF expired(e.last_time, throttleRate, clk.time)
    THEN IF sys.kind = "thread_interrupted"
         THEN [entry |-> e, kind |-> "thread_interrupted", ret |-> 0,
               errno |-> 0, stats |-> 1, time |-> clk.time]
         ELSE [entry |-> [e EXCEPT !.last_result = sys.r,
                                   !.last_errno = sys.errno,
                                   !.last_time = clk.time,
                                   !.info = IF sys.r = 0 THEN sys.info ELSE @],
               kind |-> "return", ret |-> sys.r, errno |-> sys.errno,
               stats |-> 1, time |-> clk.time]
    ELSE [entry |-> e, kind |-> "return", ret |-> e.last_result,
          errno |-> e.last_errno, stats |-> 0, time |-> clk.time]

(***************************************************************************)
(* StringMap and std::list                                                 *)
(***************************************************************************)
\* StringMap::size
CacheSize(c) == Cardinality({p \in Paths : c[p] # NoKey})

\* StringMap::get(key, defaultValue)
CacheGet(c, p, defaultValue) == IF c[p] = NoKey THEN defaultValue ELSE c[p]

\* StringMap::set
CacheSet(c, p, it) == [c EXCEPT ![p] = it]

\* StringMap::remove
CacheRemove(c, p) == [c EXCEPT ![p] = NoKey]

\* knows() answering true of every filename.
ContainsAll(c, p) == TRUE

\* What CachedFileStat::knows returns for p with the map c.
Contains(c, p) == CacheGet(c, p, NullIterator) # NullIterator

\* The nodes of a list.
Nodes(es) == {es[i].node : i \in 1 .. Len(es)}

\* The position of node `it` in the list (0 if it is not a node of it).
Position(es, it) ==
    IF it \in Nodes(es) THEN CHOOSE i \in 1 .. Len(es) : es[i].node = it ELSE 0

\* The address the allocator gives a new list node: one no live node has.
NewNode(es, p) ==
    IF p \notin Nodes(es) THEN p
    ELSE CHOOSE n \in 1 .. (Len(es) + 1) : n \notin Nodes(es)

\* Variant of PopBack: the front node is removed.
PopFront(es) == Tail(es)

\* std::list::pop_back
PopBack(es) == SubSeq(es, 1, Len(es) - 1)

\* std::list::push_front
PushFront(es, e) == <<e>> \o es

\* Variant of Splice: the node stays where it is.
SpliceStays(es, i) == es

\* std::list::splice(begin(), list, it), `it` at position i: the node moves
\* to the front, the others keep their order.
Splice(es, i) ==
    <<es[i]>> \o SubSeq(es, 1, i - 1) \o SubSeq(es, i + 1, Len(es))

\* The filenames of a list, front first.
Filenames(es) == [i \in 1 .. Len(es) |-> es[i].filename]

(***************************************************************************)
(* CachedFileStat::stat, lines 166-193: find or create the entry and make  *)
(* it the most recently used. ub: the code ran into undefined behaviour    *)
(* (it used an iterator that is no node of the list).                      *)
(***************************************************************************)
\* Variant of CacheFull: the cache counts as full one entry too late.
CacheFullLate(size, max) == max # 0 /\ size > max

\* The condition of line 174.
CacheFull(size, max) == max # 0 /\ size = max

Locate(filename) ==
    LET it == CacheGet(cache, filename, End)
        full == CacheFull(CacheSize(cache), maxSize)
    IN
    IF it = End
    THEN IF full /\ entries = <<>>
         THEN [ub |-> TRUE, entries |-> entries, cache |-> cache,
               hit |-> FALSE, evicted |-> 0]
         ELSE LET filename2 == entries[Len(entries)].filename
                  entries1 == IF full THEN PopBack(entries) ELSE entries
                  cache1 == IF full THEN CacheRemove(cache, filename2)
                            ELSE cache
                  node == NewNode(entries1, filename)
              IN  [ub |-> FALSE,
                   entries |-> PushFront(entries1, NewEntry(node, filename)),
                   cache |-> CacheSet(cache1, filename, node),
                   hit |-> FALSE,
                   evicted |-> IF full THEN filename2 ELSE 0]
    ELSE IF Position(entries, it) = 0
         THEN [ub |-> TRUE, entries |-> entries, cache |-> cache,
               hit |-> TRUE, evicted |-> 0]
         ELSE LET entries1 == Splice(entries, Position(entries, it))
              IN  [ub |-> FALSE,
                   entries |-> entries1,
                   cache |-> CacheSet(cache, filename, entries1[1].node),
                   hit |-> TRUE, evicted |-> 0]

(***************************************************************************)
(* CachedFileStat::setMaxSize, lines 208-215: the entries to remove, and   *)
(* the list and map after the loop. ub: the loop went on after the list    *)
(* was empty (entries.back() and pop_back() of an empty list).             *)
(***************************************************************************)
\* toRemove one less than the code computes.
ToRemoveOneLess(size, max) == ToInt(size - max - 1)

\* int toRemove = cache.size() - maxSize
ToRemove(size, max) == ToInt(size - max)

\* The loop of setMaxSize leaving the keys in the map.
RemoveKeysNone(c, fs) == c

RECURSIVE RemoveKeys(_, _)
RemoveKeys(c, fs) ==
    IF fs = <<>> THEN c ELSE RemoveKeys(CacheRemove(c, Head(fs)), Tail(fs))

Shrink(newSize) ==
    LET toRemove == IF newSize # 0 THEN ToRemove(CacheSize(cache), newSize)
                    ELSE 0
        n == IF toRemove < 0 THEN 0
             ELSE IF toRemove > Len(entries) THEN Len(entries) ELSE toRemove
        kept == SubSeq(entries, 1, Len(entries) - n)
        gone == SubSeq(entries, Len(entries) - n + 1, Len(entries))
    IN  [ub |-> toRemove > Len(entries),
         entries |-> kept,
         cache |-> RemoveKeys(cache, Filenames(gone)),
         removed |-> n]

(***************************************************************************)
(* History                                                                 *)
(***************************************************************************)
NoCall == [op |-> "none"]

\* The filenames stat() was called on, the latest call first.
Touch(rec, p) == <<p>> \o SelectSeq(rec, LAMBDA q : q # p)

NeverStatted == -1

\* Filenames are interchangeable: the next filename that stat() has not yet
\* been called on is the lowest such number.
NextFilenames == {p \in Paths : p <= Len(recency) + 1}

(***************************************************************************)
(* Threads. Every public method starts by locking the mutex with a         *)
(* boost::unique_lock, which unlocks it when the method returns or an      *)
(* exception unwinds it.                                                   *)
(***************************************************************************)
Init ==
    /\ maxSize \in Capacities
    /\ entries = <<>>
    /\ cache = [p \in Paths |-> NoKey]
    /\ lock = NoThread
    /\ pc = [t \in Threads |-> "idle"]
    /\ now \in Times
    /\ crashed = FALSE
    /\ last = NoCall
    /\ recency = <<>>
    /\ lastStat = [p \in Paths |-> NeverStatted]
    /\ lastRate = [p \in Paths |-> 0]
    /\ ncalls = 0

\* A thread calls one of the methods and blocks on the mutex.
Call(t) ==
    /\ ~crashed
    /\ pc[t] = "idle"
    /\ \A u \in Threads : u < t => pc[u] # "idle"
    /\ ncalls < MaxCalls
    /\ pc' = [pc EXCEPT ![t] = "waiting"]
    /\ ncalls' = ncalls + 1
    /\ UNCHANGED <<maxSize, entries, cache, lock, now, crashed, last, recency,
                   lastStat, lastRate>>

\* A lock() that does not wait for the mutex to be free.
AcquireTaken(t) ==
    /\ ~crashed
    /\ pc[t] = "waiting"
    /\ lock' = t
    /\ pc' = [pc EXCEPT ![t] = "locked"]
    /\ UNCHANGED <<maxSize, entries, cache, now, crashed, last, recency,
                   lastStat, lastRate, ncalls>>

\* boost::unique_lock<boost::mutex> l(lock)
Acquire(t) ==
    /\ ~crashed
    /\ pc[t] = "waiting"
    /\ lock = NoThread
    /\ lock' = t
    /\ pc' = [pc EXCEPT ![t] = "locked"]
    /\ UNCHANGED <<maxSize, entries, cache, now, crashed, last, recency,
                   lastStat, lastRate, ncalls>>

\* The end of a method leaving the mutex locked.
UnlockKeepsLock(t) ==
    /\ lock' = lock
    /\ pc' = [pc EXCEPT ![t] = "idle"]

\* The method is left, by return or by exception: ~unique_lock unlocks.
Unlock(t) ==
    /\ lock' = NoThread
    /\ pc' = [pc EXCEPT ![t] = "idle"]

\* The process dies in the method.
Crash ==
    /\ crashed' = TRUE
    /\ UNCHANGED <<lock, pc>>

\* Whether an entry records a stat() call: a new Entry has last_result -1
\* and last_errno 0, and a failed stat() sets errno.
HasStatted(e) == ~(e.last_result = -1 /\ e.last_errno = 0)

\* CachedFileStat::stat undoing the lookup when its stat() call fails.
StatCallDropsFailed(t, filename, throttleRate, clk, sys) ==
    \E loc \in {Locate(filename)} :
    IF loc.ub
    THEN /\ Crash
         /\ UNCHANGED <<maxSize, entries, cache, now, last, recency,
                        lastStat, lastRate, ncalls>>
    ELSE \E r \in {refresh(loc.entries[1], throttleRate, clk, sys)} :
         /\ entries' = IF r.ret = -1 /\ r.stats = 1 THEN entries
                       ELSE [loc.entries EXCEPT ![1] = r.entry]
         /\ cache' = IF r.ret = -1 /\ r.stats = 1 THEN cache ELSE loc.cache
         /\ last' = [op |-> "stat", filename |-> filename,
                     kind |-> r.kind, ret |-> r.ret, errno |-> r.errno,
                     buf |-> IF r.kind = "return" THEN r.entry.info ELSE 0,
                     stats |-> r.stats, hit |-> loc.hit,
                     evicted |-> loc.evicted,
                     restat |-> HasStatted(loc.entries[1])]
         /\ recency' = Touch(recency, filename)
         /\ lastStat' = IF r.stats > 0 /\ r.kind = "return"
                        THEN [lastStat EXCEPT ![filename] = r.time]
                        ELSE lastStat
         /\ lastRate' = IF r.stats > 0 /\ r.kind = "return"
                        THEN [lastRate EXCEPT ![filename] = throttleRate]
                        ELSE lastRate
         /\ Unlock(t)
         /\ UNCHANGED <<maxSize, now, crashed, ncalls>>

\* CachedFileStat::stat(filename, buf, throttleRate), the clock read ending
\* as clk and the stat() call, if one is made, as sys.
StatCall(t, filename, throttleRate, clk, sys) ==
    \E loc \in {Locate(filename)} :
    IF loc.ub
    THEN /\ Crash
         /\ UNCHANGED <<maxSize, entries, cache, now, last, recency,
                        lastStat, lastRate, ncalls>>
    ELSE \E r \in {refresh(loc.entries[1], throttleRate, clk, sys)} :
         /\ entries' = [loc.entries EXCEPT ![1] = r.entry]
         /\ cache' = loc.cache
         /\ last' = [op |-> "stat", filename |-> filename,
                     kind |-> r.kind, ret |-> r.ret, errno |-> r.errno,
                     buf |-> IF r.kind = "return" THEN r.entry.info ELSE 0,
                     stats |-> r.stats, hit |-> loc.hit,
                     evicted |-> loc.evicted,
                     restat |-> HasStatted(loc.entries[1])]
         /\ recency' = Touch(recency, filename)
         /\ lastStat' = IF r.stats > 0 /\ r.kind = "return"
                        THEN [lastStat EXCEPT ![filename] = r.time]
                        ELSE lastStat
         /\ lastRate' = IF r.stats > 0 /\ r.kind = "return"
                        THEN [lastRate EXCEPT ![filename] = throttleRate]
                        ELSE lastRate
         /\ Unlock(t)
         /\ UNCHANGED <<maxSize, now, crashed, ncalls>>

\* The outcomes of the stat() call that stat(filename, throttleRate) makes
\* after the clock read clk: NoStat when it makes none.
SysOutcomes(filename, throttleRate, clk) ==
    LET loc == Locate(filename) IN
    IF /\ ~loc.ub
       /\ clk.kind = "time"
       /\ expired(loc.entries[1].last_time, throttleRate, clk.time)
    THEN StatOutcomes
    ELSE {NoStat}

stat(t) ==
    /\ ~crashed
    /\ pc[t] = "locked"
    /\ \E filename \in NextFilenames, throttleRate \in ThrottleRates,
          clk \in ClockOutcomes :
        \E sys \in SysOutcomes(filename, throttleRate, clk) :
            StatCall(t, filename, throttleRate, clk, sys)

\* CachedFileStat::setMaxSize(newSize). When the loop runs into undefined
\* behaviour the process dies there, or the surplus pops go unnoticed.
SetMaxSizeCall(t, newSize, dies) ==
    \E s \in {Shrink(newSize)} :
    /\ entries' = s.entries
    /\ cache' = s.cache
    /\ IF s.ub /\ dies
       THEN /\ Crash
            /\ UNCHANGED <<maxSize, last>>
       ELSE /\ maxSize' = newSize
            /\ last' = [op |-> "setMaxSize", maxSize |-> newSize,
                        kind |-> "return", removed |-> s.removed, ub |-> s.ub]
            /\ Unlock(t)
            /\ UNCHANGED crashed
    /\ UNCHANGED <<now, recency, lastStat, lastRate, ncalls>>

setMaxSize(t) ==
    /\ ~crashed
    /\ pc[t] = "locked"
    /\ \E newSize \in Capacities :
        \E dies \in (IF Shrink(newSize).ub THEN BOOLEAN ELSE {FALSE}) :
            SetMaxSizeCall(t, newSize, dies)

\* CachedFileStat::knows(filename)
KnowsCall(t, filename) ==
    /\ last' = [op |-> "knows", filename |-> filename, kind |-> "return",
                ret |-> Contains(cache, filename)]
    /\ Unlock(t)
    /\ UNCHANGED <<maxSize, entries, cache, now, crashed, recency, lastStat,
                   lastRate, ncalls>>

knows(t) ==
    /\ ~crashed
    /\ pc[t] = "locked"
    /\ \E filename \in NextFilenames : KnowsCall(t, filename)

\* CachedFileStat::stat, reading a clock that was set back.
statSetBack(t) ==
    /\ ~crashed
    /\ pc[t] = "locked"
    /\ \E filename \in NextFilenames, throttleRate \in ThrottleRates,
          clk \in SetBackOutcomes :
        \E sys \in SysOutcomes(filename, throttleRate, clk) :
            StatCall(t, filename, throttleRate, clk, sys)

\* Time passes.
Tick ==
    /\ ~crashed
    /\ \E time \in Times : time > now /\ now' = time
    /\ UNCHANGED <<maxSize, entries, cache, lock, pc, crashed, last, recency,
                   lastStat, lastRate, ncalls>>

Method(t) == stat(t) \/ setMaxSize(t) \/ knows(t)

\* The program under a clock that is never set back.
NextForward ==
    \/ \E t \in Threads : Call(t) \/ Acquire(t) \/ Method(t)
    \/ Tick

\* The program under a clock that may be set back at any time.
Next ==
    \/ \E t \in Threads : Call(t) \/ Acquire(t) \/ Method(t)
    \/ \E t \in Threads : statSetBack(t)
    \/ Tick

Spec == Init /\ [][Next]_vars

SpecForward == Init /\ [][NextForward]_vars

\* The program under a fair scheduler: a thread inside a method goes on to
\* its end, and a thread that finds the mutex free again and again gets it.
SpecFair ==
    /\ Init
    /\ [][Next]_vars
    /\ \A t \in Threads :
           /\ SF_vars(Acquire(t))
           /\ WF_vars(Method(t) \/ statSetBack(t))

(***************************************************************************)
(* Properties                                                              *)
(***************************************************************************)
\* A method returns or throws in this step.
MethodStep == \E t \in Threads : pc[t] = "locked" /\ pc'[t] = "idle"

\* CachedFileStat::stat returns or throws in this step.
StatStep == MethodStep /\ last'.op = "stat"

\* The position of p in a sequence of filenames (0 if it is not in it).
Rank(fs, p) ==
    IF \E i \in 1 .. Len(fs) : fs[i] = p
    THEN CHOOSE i \in 1 .. Len(fs) : fs[i] = p
    ELSE 0

\* A sequence of filenames without p.
Without(fs, p) == SelectSeq(fs, LAMBDA q : q # p)

AllIdle == \A t \in Threads : pc[t] = "idle"

(***************************************************************************)
(* C1. Capacity bound: in every reachable state, whenever maxSize is not 0 *)
(* the list and the map hold the same number of entries, and at most       *)
(* maxSize of them.                                                        *)
(***************************************************************************)
CapacityBound ==
    maxSize # 0 =>
        /\ Len(entries) = CacheSize(cache)
        /\ CacheSize(cache) <= maxSize

\* A stat() call evicted an entry of a cache that was full at maxSize 2.
CapacityBoundWitness ==
    /\ maxSize = 2
    /\ Len(entries) = 2
    /\ last.op = "stat"
    /\ last.evicted # 0

(***************************************************************************)
(* C2. LRU eviction order: whenever stat() evicts, the evicted entry is    *)
(* the tail of the list and the cached filename whose latest stat() call   *)
(* is the oldest, the others keeping their order behind the new entry; and *)
(* once maxSize + 1 distinct filenames have been stat()ted, in that order, *)
(* on an empty cache of capacity maxSize > 0, the first is not known and   *)
(* the others are.                                                         *)
(***************************************************************************)
Evicted == {p \in Paths : Contains(cache, p) /\ ~Contains(cache', p)}

EvictsOldest ==
    StatStep /\ Evicted # {} =>
        /\ entries # <<>>
        /\ Evicted = {entries[Len(entries)].filename}
        /\ \A p \in Evicted, q \in Paths :
              Contains(cache, q) =>
                  /\ Rank(recency, q) # 0
                  /\ Rank(recency, q) <= Rank(recency, p)
        /\ Filenames(entries') =
              <<last'.filename>>
                  \o SubSeq(Filenames(entries), 1, Len(entries) - 1)

\* Every call so far was a stat() of a filename not stat()ted before.
OnlyDistinctStats == AllIdle /\ Len(recency) = ncalls

OneMoreThanCapacity ==
    maxSize # 0 /\ OnlyDistinctStats /\ ncalls = maxSize + 1 =>
        /\ ~Contains(cache, recency[Len(recency)])
        /\ \A i \in 1 .. (Len(recency) - 1) : Contains(cache, recency[i])

LRUEvictionOrder == [][EvictsOldest /\ OneMoreThanCapacity']_vars

\* Three filenames were stat()ted in turn with maxSize 2, the third call
\* evicting the first filename.
LRUEvictionOrderWitness ==
    /\ maxSize = 2
    /\ OnlyDistinctStats
    /\ ncalls = 3
    /\ last.op = "stat"
    /\ last.evicted = recency[3]

(***************************************************************************)
(* C3. Recency update on hit: a stat() of a cached filename moves its      *)
(* entry to the front, the other entries keeping their order; and with     *)
(* maxSize C > 0, a cached filename other than the one stat()ted stays     *)
(* cached while fewer than C distinct other filenames have been stat()ted  *)
(* since its own latest stat(), and is evicted by the call that makes them *)
(* C.                                                                      *)
(***************************************************************************)
HitPromotes ==
    StatStep /\ last'.hit =>
        Filenames(entries') =
            <<last'.filename>> \o Without(Filenames(entries), last'.filename)

\* Rank(recency, p) - 1 distinct other filenames were stat()ted since p was.
KeptWhileRecent ==
    StatStep /\ maxSize # 0 =>
        \A p \in Paths \ {last'.filename} :
            Contains(cache, p) =>
                /\ Rank(recency', p) <= maxSize => Contains(cache', p)
                /\ ~Contains(cache', p) => Rank(recency', p) = maxSize + 1

AllClockOutcomes == ClockOutcomes \cup SetBackOutcomes

\* The entry of a cached filename.
Cached(p) ==
    entries[CHOOSE i \in 1 .. Len(entries) : entries[i].filename = p]

\* This step is stat(filename, buf, throttleRate), its clock read ending
\* as clk.
StatOf(filename, throttleRate, clk) ==
    /\ StatStep
    /\ last'.filename = filename
    /\ \E t \in Threads \cap {lock} :
        /\ pc[t] = "locked"
        /\ \E sys \in SysOutcomes(filename, throttleRate, clk) :
            StatCall(t, filename, throttleRate, clk, sys)

(***************************************************************************)
(* C4. Throttle correctness, for a filename that stays cached and a clock  *)
(* that is not set back. As claimed: after stat(p, T) returns at time c, a *)
(* second stat(p, T) less than T seconds later calls no stat() and returns *)
(* what the first returned; and a stat(p, T) that comes T seconds or more  *)
(* after the last stat() of p calls stat() once.                           *)
(***************************************************************************)
\* A stat(p, T) call T seconds or more after the latest stat() of p's entry
\* calls stat() once.
StatsOnceExpired ==
    StatStep /\ last'.hit /\ last'.restat =>
        \A throttleRate \in ThrottleRates, clk \in ClockOutcomes :
            /\ clk.kind = "time"
            /\ clk.time - Cached(last'.filename).last_time >= throttleRate
            /\ StatOf(last'.filename, throttleRate, clk)
            => last'.stats = 1

\* After this stat(p, T) call has returned what a stat() fetched, another
\* one less than T seconds later finds the entry not expired, so that it
\* calls no stat().
NoStatWithinRateOfCall ==
    /\ StatStep
    /\ last'.kind = "return"
    /\ HasStatted(entries'[1])
    /\ ncalls < MaxCalls
    => \A throttleRate \in ThrottleRates, clk \in ClockOutcomes :
           /\ clk.kind = "time"
           /\ StatOf(last'.filename, throttleRate, clk)
           => \A time \in Times :
                  time >= clk.time /\ time - clk.time < throttleRate
                  => ~expired(entries'[1].last_time, throttleRate, time)

ThrottleBetweenCalls == [][NoStatWithinRateOfCall /\ StatsOnceExpired]_vars

(***************************************************************************)
(* C4, as the code has it: the interval runs from the last stat() of p,    *)
(* not from the last call. A stat(p, T) call on an entry that was stat()ted *)
(* since it was cached, reading the clock less than T seconds after that   *)
(* stat(), calls no stat(), leaves the entry as it is and returns what the *)
(* stat() left in it; reading the clock T seconds or more after it, it     *)
(* calls stat() once.                                                      *)
(***************************************************************************)
ThrottleSinceStat ==
    StatStep /\ last'.hit /\ last'.restat =>
        \A throttleRate \in ThrottleRates, clk \in ClockOutcomes :
            /\ clk.kind = "time"
            /\ StatOf(last'.filename, throttleRate, clk)
            => LET e == Cached(last'.filename) IN
               /\ lastStat[last'.filename] = e.last_time
               /\ clk.time >= e.last_time
               /\ IF clk.time - e.last_time < throttleRate
                  THEN /\ last'.stats = 0
                       /\ last'.kind = "return"
                       /\ last'.ret = e.last_result
                       /\ last'.errno = e.last_errno
                       /\ last'.buf = e.info
                       /\ entries'[1] = e
                  ELSE last'.stats = 1

ThrottleCorrectness == [][ThrottleSinceStat]_vars

\* A stat() call returned a cached success some time after the stat() that
\* fetched it.
ThrottleCorrectnessWitness ==
    /\ last.op = "stat"
    /\ last.hit
    /\ last.restat
    /\ last.stats = 0
    /\ last.kind = "return"
    /\ last.ret = 0
    /\ last.buf # 0
    /\ lastStat[last.filename] # NeverStatted
    /\ now > lastStat[last.filename]

(***************************************************************************)
(* C5. The first query is a real query: a stat() call for a filename that  *)
(* is not cached calls stat(), whatever throttleRate and the clock are, so *)
(* that it never returns the new entry's initial state (-1 with errno 0    *)
(* and a zeroed buffer).                                                   *)
(***************************************************************************)
FirstQueryIsReal ==
    last.op = "stat" /\ ~last.hit /\ last.kind = "return"
    => /\ last.stats = 1
       /\ ~(last.ret = -1 /\ last.errno = 0 /\ last.buf = 0)

FailureIsCached ==
    StatStep /\ last'.stats = 1 /\ last'.kind = "return" /\ last'.ret = -1
    => /\ Contains(cache', last'.filename)
       /\ last'.errno \in Errnos
       /\ entries'[1].filename = last'.filename
       /\ entries'[1].last_result = -1
       /\ entries'[1].last_errno = last'.errno
       /\ entries'[1].last_time = lastStat'[last'.filename]

\* This step is a stat() call that finds its filename cached with a failed
\* stat() in the entry.
FindsFailure ==
    /\ StatStep
    /\ last'.hit
    /\ Cached(last'.filename).last_result = -1
    /\ Cached(last'.filename).last_errno # 0

FailureCachedAlways ==
    [][/\ FailureIsCached
       /\ FindsFailure =>
              \A throttleRate \in ThrottleRates, clk \in AllClockOutcomes :
                  /\ clk.kind = "time"
                  /\ clk.time - lastStat[last'.filename] < throttleRate
                  /\ StatOf(last'.filename, throttleRate, clk)
                  => /\ last'.stats = 0
                     /\ last'.kind = "return"
                     /\ last'.ret = -1
                     /\ last'.errno
                            = Cached(last'.filename).last_errno]_vars

(***************************************************************************)
(* C7, as the code has it: a failed stat() leaves p cached with its errno, *)
(* and while p stays cached, a stat(p, T) call that reads a time not       *)
(* earlier than that of the failed stat() and less than T seconds after it *)
(* calls no stat() and returns -1 with that errno; one that reads a time T *)
(* seconds or more after it calls stat() again.                            *)
(***************************************************************************)
FailureCaching ==
    [][/\ FailureIsCached
       /\ FindsFailure =>
              \A throttleRate \in ThrottleRates, clk \in AllClockOutcomes :
                  /\ clk.kind = "time"
                  /\ clk.time >= lastStat[last'.filename]
                  /\ StatOf(last'.filename, throttleRate, clk)
                  => LET e == Cached(last'.filename) IN
                     /\ lastStat[last'.filename] = e.last_time
                     /\ IF clk.time - e.last_time < throttleRate
                        THEN /\ last'.stats = 0
                             /\ last'.kind = "return"
                             /\ last'.ret = -1
                             /\ last'.errno = e.last_errno
                             /\ entries'[1] = e
                        ELSE last'.stats = 1]_vars

\* A stat() call returned a cached failure.
FailureCachingWitness ==
    /\ last.op = "stat"
    /\ last.hit
    /\ last.stats = 0
    /\ last.kind = "return"
    /\ last.ret = -1
    /\ last.errno \in Errnos
    /\ Contains(cache, last.filename)

(***************************************************************************)
(* C8. No partial mutation on infrastructural failure. As claimed: when a  *)
(* stat() call throws TimeRetrievalException or thread_interrupted, the    *)
(* list and the map are as they were before the call.                      *)
(***************************************************************************)
Throws == StatStep /\ last'.kind # "return"

NoMutationOnFailure == [][Throws => entries' = entries /\ cache' = cache]_vars

(***************************************************************************)
(* C8, as the code has it: a stat(p) call that throws has already found or *)
(* created p's entry. Then p is at the front of the list, the tail has     *)
(* been evicted if p was not cached and the cache was full, and the others *)
(* keep their order; no entry's cached result has changed, a new entry is  *)
(* in its initial state, and the map holds exactly the listed filenames,   *)
(* within maxSize.                                                         *)
(***************************************************************************)
ThrowsAfterLocate ==
    Throws =>
        LET filename == last'.filename
            fs == Filenames(entries)
            rest == IF Contains(cache, filename) THEN Without(fs, filename)
                    ELSE IF maxSize # 0 /\ Len(fs) = maxSize
                         THEN SubSeq(fs, 1, Len(fs) - 1)
                         ELSE fs
        IN  /\ Filenames(entries') = <<filename>> \o rest
            /\ \A p \in Paths :
                   Contains(cache', p) <=> Rank(Filenames(entries'), p) # 0
            /\ \A i \in 2 .. Len(entries') :
                   entries'[i] = Cached(entries'[i].filename)
            /\ entries'[1] = IF Contains(cache, filename)
                             THEN Cached(filename)
                             ELSE NewEntry(entries'[1].node, filename)
            /\ Len(entries') = CacheSize(cache')
            /\ maxSize # 0 => Len(entries') <= maxSize
            /\ lastStat' = lastStat

FailureAfterLocate == [][ThrowsAfterLocate]_vars

\* A stat() call for a new filename threw TimeRetrievalException after it
\* had evicted the tail and inserted the new entry.
FailureAfterLocateWitness ==
    /\ last.op = "stat"
    /\ last.kind = "TimeRetrievalException"
    /\ ~last.hit
    /\ last.evicted # 0
    /\ entries # <<>>
    /\ entries[1] = NewEntry(entries[1].node, last.filename)
    /\ ~Contains(cache, last.evicted)

(***************************************************************************)
(* C9. Shrink on resize: setMaxSize(n) with 0 < n < cache.size() removes   *)
(* cache.size() - n entries from the tail of the list and leaves the first *)
(* n, the n most recently stat()ted filenames, in their order and as they  *)
(* were; right after, knows() is true of exactly those.                    *)
(***************************************************************************)
SetMaxSizeStep == MethodStep /\ last'.op = "setMaxSize"

Shrinks ==
    /\ SetMaxSizeStep
    /\ 0 < last'.maxSize
    /\ last'.maxSize < CacheSize(cache)
    => LET n == last'.maxSize
           wasCached == SelectSeq(recency, LAMBDA q : Contains(cache, q))
       IN  /\ entries' = SubSeq(entries, 1, n)
           /\ last'.removed = CacheSize(cache) - n
           /\ Len(entries) = CacheSize(cache)
           /\ Filenames(entries') = SubSeq(wasCached, 1, n)
           /\ \A p \in Paths :
                  Contains(cache', p) <=> Rank(Filenames(entries'), p) # 0
           /\ \A i \in (n + 1) .. Len(entries) :
                  ~Contains(cache', entries[i].filename)
           /\ maxSize' = n
           /\ ~last'.ub

ShrinkOnResize == [][Shrinks]_vars

\* setMaxSize(1) has removed the tail of a list of two or more entries.
ShrinkOnResizeWitness ==
    /\ last.op = "setMaxSize"
    /\ last.maxSize = 1
    /\ last.removed >= 1
    /\ ~last.ub
    /\ Len(entries) = 1
    /\ Contains(cache, entries[1].filename)
    /\ maxSize = 1

(***************************************************************************)
(* C10. No eviction in unbounded mode or on growth: while maxSize is 0 a   *)
(* stat() call removes no entry, and setMaxSize(n) with n = 0 or           *)
(* n >= cache.size() leaves the list, the map and the entries as they are  *)
(* and only sets maxSize.                                                  *)
(***************************************************************************)
NoEvictionWhileUnbounded ==
    StatStep /\ maxSize = 0
    => /\ last'.evicted = 0
       /\ \A p \in Paths : Contains(cache, p) => Contains(cache', p)
       /\ Len(entries') >= Len(entries)

GrowthKeepsEntries ==
    \A t \in Threads, newSize \in Capacities, dies \in BOOLEAN :
        /\ ~crashed
        /\ pc[t] = "locked"
        /\ newSize = 0 \/ newSize >= CacheSize(cache)
        /\ SetMaxSizeCall(t, newSize, dies)
        => /\ entries' = entries
           /\ cache' = cache
           /\ maxSize' = newSize
           /\ ~crashed'

NoEvictionUnboundedOrGrowth ==
    [][NoEvictionWhileUnbounded /\ GrowthKeepsEntries]_vars

\* CachedFileStat::knows returns in this step.
KnowsStep == MethodStep /\ last'.op = "knows"

\* This step is stat(filename, buf, throttleRate), its clock read ending
\* as clk and its stat() call, if it makes one, as sys.
StatWith(filename, throttleRate, clk, sys) ==
    /\ StatStep
    /\ last'.filename = filename
    /\ \E t \in Threads \cap {lock} :
        /\ pc[t] = "locked"
        /\ StatCall(t, filename, throttleRate, clk, sys)

(***************************************************************************)
(* C11. knows(p) returns true exactly when p is a key of the map, that is  *)
(* when p is the filename of a list entry, which an earlier stat(p) call   *)
(* created; and it changes nothing: maxSize, the list, the map and every   *)
(* entry stay as they are, the clock is not read and no stat() is made.    *)
(***************************************************************************)
KnowsReadsOnly ==
    KnowsStep =>
        /\ last'.ret <=> cache[last'.filename] # NoKey
        /\ last'.ret <=> Rank(Filenames(entries), last'.filename) # 0
        /\ last'.ret => Rank(recency, last'.filename) # 0
        /\ last'.kind = "return"
        /\ UNCHANGED <<maxSize, entries, cache, now, lastStat, lastRate,
                       recency, crashed>>

ContainsIsReadOnly == [][KnowsReadsOnly]_vars

\* knows() has returned true of a cached filename that is not at the front
\* of the list.
ContainsIsReadOnlyWitness ==
    /\ last.op = "knows"
    /\ last.ret
    /\ Len(entries) >= 2
    /\ entries[1].filename # last.filename
    /\ Contains(cache, last.filename)

(***************************************************************************)
(* C12. Throttle 0: every stat(p, buf, 0) call whose clock read succeeds   *)
(* calls stat(), whatever last_time and the clock are, and returns what    *)
(* that stat() returned.                                                   *)
(***************************************************************************)
ZeroAlwaysStats ==
    StatStep =>
        \A clk \in AllClockOutcomes :
            clk.kind = "time" =>
                \A sys \in SysOutcomes(last'.filename, 0, clk) :
                    StatWith(last'.filename, 0, clk, sys) =>
                        /\ sys \in StatOutcomes
                        /\ last'.stats = 1
                        /\ last'.kind = sys.kind
                        /\ sys.kind = "return" =>
                               /\ last'.ret = sys.r
                               /\ last'.errno = sys.errno
                               /\ sys.r = 0 => last'.buf = sys.info
                               /\ entries'[1].last_time = clk.time

ThrottleZero == [][ZeroAlwaysStats]_vars

\* A stat() call with throttleRate 0 has stat()ted a cached entry again at
\* the time of the stat() before.
ThrottleZeroWitness ==
    /\ last.op = "stat"
    /\ last.hit
    /\ last.restat
    /\ last.stats = 1
    /\ last.kind = "return"
    /\ lastRate[last.filename] = 0
    /\ lastStat[last.filename] = now
    /\ now > 0
    /\ ncalls >= 2

(***************************************************************************)
(* C13. Return value when cached data is used: a stat() call that makes no *)
(* stat() returns 0, and it returns -1 only when the stat() it made went   *)
(* wrong. Stated for the calls that find their filename cached and         *)
(* stat()ted.                                                              *)
(***************************************************************************)
ReturnsZeroWhenCached ==
    /\ last.op = "stat"
    /\ last.kind = "return"
    /\ last.hit
    /\ last.restat
    => /\ last.stats = 0 => last.ret = 0
       /\ last.ret = -1 => last.stats = 1

(***************************************************************************)
(* C14. Lock release on every exit path: whenever stat(), setMaxSize() or  *)
(* knows() returns or throws, the calling thread held the mutex and has    *)
(* released it; hence, under a fair scheduler, every thread that waits for *)
(* the mutex gets it and finishes its call, as long as the process lives.  *)
(***************************************************************************)
ReleasedOnExit ==
    \A t \in Threads :
        pc[t] = "locked" /\ pc'[t] = "idle" =>
            /\ lock = t
            /\ lock' = NoThread
            /\ last'.kind \in {"return", "TimeRetrievalException",
                               "thread_interrupted"}

WaitersFinish ==
    \A t \in Threads : pc[t] = "waiting" ~> (pc[t] = "idle" \/ crashed)

LockRelease == [][ReleasedOnExit]_vars /\ WaitersFinish

\* A stat() call has thrown thread_interrupted while another thread waits
\* for the mutex, which is free.
LockReleaseWitness ==
    /\ last.op = "stat"
    /\ last.kind = "thread_interrupted"
    /\ lock = NoThread
    /\ \E t \in Threads : pc[t] = "waiting"
    /\ ~crashed

(***************************************************************************)
(* C15. Atomicity under concurrency: at most one thread at a time is       *)
(* between locking and unlocking the mutex, and it is the one the mutex    *)
(* records; only that thread changes maxSize, the list, the map or an      *)
(* entry, so that the steps of a stat() call, and the stat() it makes, are *)
(* not interleaved with another call's; and the buffer, return value and   *)
(* errno of a stat() call are those of the entry of its own filename as    *)
(* its refresh() left it.                                                  *)
(***************************************************************************)
OneInside ==
    /\ Cardinality({t \in Threads : pc[t] = "locked"}) <= 1
    /\ \A t \in Threads : pc[t] = "locked" <=> lock = t

OnlyHolderWrites ==
    <<maxSize, entries, cache, last, lastStat, lastRate, recency>>
        # <<maxSize', entries', cache', last', lastStat', lastRate',
            recency'>>
    => /\ lock \in Threads
       /\ pc[lock] = "locked"
       /\ \A t \in Threads \ {lock} : pc'[t] = pc[t]

ReturnsOwnEntry ==
    StatStep /\ last'.kind = "return" =>
        /\ entries'[1].filename = last'.filename
        /\ cache'[last'.filename] = entries'[1].node
        /\ last'.ret = entries'[1].last_result
        /\ last'.errno = entries'[1].last_errno
        /\ last'.buf = entries'[1].info
        /\ last'.stats \in {0, 1}

Atomicity ==
    [][OneInside /\ OneInside' /\ OnlyHolderWrites /\ ReturnsOwnEntry]_vars

\* A thread is inside stat(), setMaxSize() or knows() while another waits
\* for the mutex, after a stat() call of the other thread that stat()ted.
AtomicityWitness ==
    /\ \E t, u \in Threads :
           t # u /\ lock = t /\ pc[t] = "locked" /\ pc[u] = "waiting"
    /\ last.op = "stat"
    /\ last.stats = 1
    /\ last.kind = "return"
    /\ Len(entries) >= 1

(***************************************************************************)
(* C16. Index/order consistency: in every state in which the mutex is      *)
(* free, after calls that returned or threw, every key of the map holds    *)
(* the iterator of a list node whose entry has that filename, every list   *)
(* entry has its filename as a key holding its node, and no two list       *)
(* entries have the same filename.                                         *)
(***************************************************************************)
IndexOrderConsistent ==
    lock = NoThread =>
        /\ \A p \in Paths :
               cache[p] # NoKey =>
                   /\ Position(entries, cache[p]) # 0
                   /\ entries[Position(entries, cache[p])].filename = p
        /\ \A i \in 1 .. Len(entries) :
               cache[entries[i].filename] = entries[i].node
        /\ \A i, j \in 1 .. Len(entries) :
               i # j => /\ entries[i].filename # entries[j].filename
                        /\ entries[i].node # entries[j].node
        /\ CacheSize(cache) = Len(entries)

\* The mutex is free after a stat() call that threw, with two entries in
\* the list.
IndexOrderConsistentWitness ==
    /\ lock = NoThread
    /\ last.op = "stat"
    /\ last.kind = "TimeRetrievalException"
    /\ Len(entries) >= 2
    /\ CacheSize(cache) >= 2

(***************************************************************************)
(* C17. Backward clock jump forces refresh. As claimed: whenever refresh() *)
(* reads a time earlier than the entry's last_time, the unsigned           *)
(* difference counts as expired and stat() is called, for every            *)
(* throttleRate.                                                           *)
(***************************************************************************)
\* This step is a stat() call that finds its filename cached.
StatHit == StatStep /\ last'.hit

BackwardJumpAlwaysRefreshes ==
    [][StatHit =>
           \A throttleRate \in ThrottleRates, clk \in SetBackOutcomes :
               /\ clk.time < Cached(last'.filename).last_time
               /\ StatOf(last'.filename, throttleRate, clk)
               => last'.stats = 1]_vars

(***************************************************************************)
(* C17, as the code has it: when refresh() reads a time d seconds earlier  *)
(* than the entry's last_time, the elapsed time is 2^w - d, and stat() is  *)
(* called exactly when throttleRate <= 2^w - d; with a larger throttleRate *)
(* the cached result is returned.                                          *)
(***************************************************************************)
BackwardJumpRefreshes ==
    [][StatHit =>
           \A throttleRate \in ThrottleRates, clk \in SetBackOutcomes :
               /\ clk.time < Cached(last'.filename).last_time
               /\ StatOf(last'.filename, throttleRate, clk)
               => LET d == Cached(last'.filename).last_time - clk.time IN
                  /\ ToUInt(clk.time - Cached(last'.filename).last_time)
                         = UIntMod - d
                  /\ last'.stats = 1 <=> throttleRate <= UIntMod - d
                  /\ last'.stats = 0 =>
                         /\ last'.ret = Cached(last'.filename).last_result
                         /\ entries'[1] = Cached(last'.filename)]_vars

\* A stat() call with throttleRate 2 that read time 0 has stat()ted an
\* entry that had been stat()ted before: not expired had that been at 0, so
\* that the entry's last_time was later than the time read.
BackwardJumpRefreshesWitness ==
    /\ last.op = "stat"
    /\ last.hit
    /\ last.restat
    /\ last.stats = 1
    /\ last.kind = "return"
    /\ lastRate[last.filename] = 2
    /\ lastStat[last.filename] = 0
    /\ entries[1].last_time = 0
    /\ now > 0

(***************************************************************************)
(* C18. Data-level failures do not affect structure: from the same state,  *)
(* the same stat(p, T) call ends with the same list order and the same map *)
(* whether its stat() succeeds or fails; when it fails, p is inserted or   *)
(* promoted to the front as when it succeeds.                              *)
(***************************************************************************)
\* The outcomes of a stat() call that returns.
ReturnOutcomes == {sys \in StatOutcomes : sys.kind = "return"}

\* The list order and the map after stat(filename, buf, throttleRate), the
\* clock read ending as clk and the stat() call as sys.
StructureAfter(filename, throttleRate, clk, sys) ==
    LET loc == Locate(filename)
        e == refresh(loc.entries[1], throttleRate, clk, sys).entry
    IN  [order |-> Filenames([loc.entries EXCEPT ![1] = e]),
         index |-> loc.cache]

SameStructureOnFailure ==
    StatStep /\ last'.stats = 1 /\ last'.kind = "return" =>
        \A throttleRate \in ThrottleRates, clk \in AllClockOutcomes,
           sys \in ReturnOutcomes :
            StatWith(last'.filename, throttleRate, clk, sys) =>
                LET filename == last'.filename
                    fs == Filenames(entries)
                    rest == IF Contains(cache, filename)
                            THEN Without(fs, filename)
                            ELSE IF maxSize # 0 /\ Len(fs) = maxSize
                                 THEN SubSeq(fs, 1, Len(fs) - 1)
                                 ELSE fs
                IN  /\ [order |-> Filenames(entries'), index |-> cache']
                           = StructureAfter(filename, throttleRate, clk, sys)
                    /\ \A other \in ReturnOutcomes :
                           StructureAfter(filename, throttleRate, clk, other)
                               = StructureAfter(filename, throttleRate, clk,
                                                sys)
                    /\ Filenames(entries') = <<filename>> \o rest
                    /\ Contains(cache', filename)
                    /\ last'.ret = sys.r

FailureKeepsStructure == [][SameStructureOnFailure]_vars

\* A stat() call whose stat() failed has inserted its filename at the front
\* after evicting the tail.
FailureKeepsStructureWitness ==
    /\ last.op = "stat"
    /\ last.stats = 1
    /\ last.kind = "return"
    /\ last.ret = -1
    /\ ~last.hit
    /\ last.evicted # 0
    /\ entries[1].filename = last.filename
    /\ Contains(cache, last.filename)
    /\ ~Contains(cache, last.evicted)

(***************************************************************************)
(* C19. Entry frame: info, last_result, last_errno and last_time of an     *)
(* entry change only in a stat() call for that entry's filename that calls *)
(* stat(); a stat() call that is throttled or whose clock read fails, a    *)
(* stat() call for another filename, setMaxSize() and knows() leave them   *)
(* as they are in every entry that stays cached.                           *)
(***************************************************************************)
\* The entry of filename p in list es.
EntryOf(es, p) == es[CHOOSE i \in 1 .. Len(es) : es[i].filename = p]

\* What refresh() keeps in an entry.
Fields(e) == <<e.info, e.last_result, e.last_errno, e.last_time>>

Retained == {p \in Paths : Contains(cache, p) /\ Contains(cache', p)}

FieldsChangeOnlyByStat ==
    entries' # entries =>
    \A p \in Retained :
        Fields(EntryOf(entries', p)) # Fields(EntryOf(entries, p)) =>
            /\ StatStep
            /\ last'.filename = p
            /\ last'.stats = 1
            /\ last'.kind = "return"

EntryFrame == [][FieldsChangeOnlyByStat]_vars

\* A throttled stat() call has returned from an entry stat()ted earlier,
\* with another entry in the list.
EntryFrameWitness ==
    /\ last.op = "stat"
    /\ last.hit
    /\ last.restat
    /\ last.stats = 0
    /\ last.kind = "return"
    /\ Len(entries) >= 2
    /\ HasStatted(entries[2])
    /\ entries[1].last_time < now

(***************************************************************************)
(* C20. Effect of a triggered refresh: when refresh() calls stat(), the    *)
(* time it read for the expiry check becomes last_time, and the result and *)
(* errno of stat() become last_result and last_errno; if stat() succeeded  *)
(* info is what it returned, and if it failed info keeps its value, -1 is  *)
(* returned with the errno, and the caller's buffer gets that earlier      *)
(* info.                                                                   *)
(***************************************************************************)
RefreshStores ==
    StatStep /\ last'.stats = 1 /\ last'.kind = "return" =>
        \A throttleRate \in ThrottleRates, clk \in AllClockOutcomes,
           sys \in ReturnOutcomes :
            StatWith(last'.filename, throttleRate, clk, sys) =>
                LET old == IF last'.hit THEN Cached(last'.filename)
                           ELSE NewEntry(entries'[1].node, last'.filename)
                    new == entries'[1]
                IN  /\ clk.kind = "time"
                    /\ expired(old.last_time, throttleRate, clk.time)
                    /\ new.last_time = clk.time
                    /\ lastStat'[last'.filename] = clk.time
                    /\ new.last_result = sys.r
                    /\ new.last_errno = sys.errno
                    /\ new.info = IF sys.r = 0 THEN sys.info ELSE old.info
                    /\ new.filename = old.filename
                    /\ last'.ret = sys.r
                    /\ last'.errno = sys.errno
                    /\ last'.buf = new.info

TriggeredRefresh == [][RefreshStores]_vars

\* A stat() call whose stat() failed has returned -1 with the errno and the
\* info of an earlier successful stat().
TriggeredRefreshWitness ==
    /\ last.op = "stat"
    /\ last.hit
    /\ last.restat
    /\ last.stats = 1
    /\ last.kind = "return"
    /\ last.ret = -1
    /\ last.errno \in Errnos
    /\ last.buf \in Infos
    /\ entries[1].info = last.buf
    /\ entries[1].last_result = -1
    /\ entries[1].last_time = lastStat[last.filename]

=============================================================================
